---- MODULE Spec2Model ----
(***************************************************************************)
(* A model of the `survive` durability layer (src/src/lib.rs): a state     *)
(* file, a journal file and a transitional state file `state~` in one      *)
(* directory, one store process that opens the directory, mutates the      *)
(* data, compacts, is dropped or is interrupted.                           *)
(*                                                                         *)
(* The persisted type T is a Vec of small integers; its Default is the     *)
(* empty Vec.  Two mutation types exist: Push(x) with ID 1 and             *)
(* PushTwo(x, y) with ID 2.  Bytes are naturals below 256.  serde_cbor     *)
(* encodes an integer 0..23 as that one byte and an array of n < 24 items  *)
(* as the byte 128 + n followed by the items; a newtype struct is encoded  *)
(* as its field, a tuple struct as an array.                               *)
(*                                                                         *)
(* A BufWriter hands its bytes to the file in order, at a flush or when    *)
(* its buffer fills up; how much has been handed over before a flush is    *)
(* a choice the model leaves open (it depends on the buffer's capacity     *)
(* and on the sizes of the writes).                                        *)
(***************************************************************************)
EXTENDS Integers, Sequences, FiniteSets, TLC

\* ------------------------------------------------------------------ bounds

\* At most this many calls of mutate in one behaviour.
MaxMutations == 2

\* ------------------------------------------------------------- constants

\* write_u32 / read_u32: a u32 takes four bytes.
U32Len == 4

\* `self.journal_file_length += 4 + buf.len()`
TrackedHeaderLen == 4

\* Mutation::ID of Push and of PushTwo.
PushId == 1
PushTwoId == 2

\* CBOR: major type 4 (array) with the length in the low five bits.
CborArray == 128

\* CBOR: the integers and lengths that fit the initial byte.
CborSmall == 24

\* Option<usize>::None for max_journal_file_length.
NoMax == -1

\* A failed read_u32: io::ErrorKind::UnexpectedEof.
Eof == -1

\* The top byte from which on a u32 is not told from a greater one.
U32TopByte == 127

\* ------------------------------------------------------------- the types

Default == << >>

Push(x) == [id |-> PushId, args |-> <<x>>]
PushTwo(x, y) == [id |-> PushTwoId, args |-> <<x, y>>]

\* The mutations the callers of the model pass to mutate.
Mutations == {Push(1), PushTwo(2, 3)}

NoMutation == [id |-> 0, args |-> << >>]

AllIds == {PushId, PushTwoId}

\* The registries a Builder is given before open.
Registries == {AllIds, {PushId}, {PushTwoId}}

\* The values of max_journal_file_length a Builder is given.
MaxSettings == {NoMax, 0, 8}

IsPrefix(s, t) == Len(s) <= Len(t) /\ SubSeq(t, 1, Len(s)) = s

\* ------------------------------------------------------- pure functions

\* Mutation::mutate of the two mutation types.
MutateData(m, d) ==
    IF m.id = PushId THEN Append(d, m.args[1]) ELSE d \o m.args

\* serde_cbor::to_vec(&mutation)
SerMutation(m) ==
    IF m.id = PushId THEN m.args ELSE <<CborArray + Len(m.args)>> \o m.args

\* serde_cbor of the data: to_writer(&mut transitional_state, &self.data)
SerData(d) == <<CborArray + Len(d)>> \o d

\* serde_cbor::from_reader of the state file: the whole file must be one array
\* of small integers; anything else (an empty or cut file) is a Cbor error.
DeData(b) ==
    IF /\ Len(b) >= 1
       /\ b[1] >= CborArray
       /\ b[1] < CborArray + CborSmall
       /\ Len(b) = 1 + (b[1] - CborArray)
       /\ \A i \in 2..Len(b) : b[i] < CborSmall
    THEN [ok |-> TRUE, val |-> Tail(b)]
    ELSE [ok |-> FALSE, val |-> << >>]

\* write_u32::<LittleEndian>
LE32(v) ==
    << v % 256, (v \div 256) % 256, (v \div 65536) % 256, (v \div 16777216) % 256 >>

\* write_buf: the record of one mutation.
WriteBuf(id, buf) == LE32(id) \o LE32(Len(buf)) \o buf

\* read_u32::<LittleEndian> at position pos (1-based), through ignore_eof.
\* A value whose top byte is U32TopByte or more is read as the least such
\* value: it is the id of no mutation type and a length beyond the end of any
\* journal file here, whichever value it is.
ReadU32(j, pos) ==
    IF pos + U32Len - 1 > Len(j) THEN Eof
    ELSE IF j[pos + 3] >= U32TopByte THEN 16777216 * U32TopByte
    ELSE j[pos] + 256 * j[pos + 1] + 65536 * j[pos + 2] + 16777216 * j[pos + 3]

\* The closure a registered mutation type leaves in the registry:
\* serde_cbor::from_slice(buf) and mutate.
Process(id, buf, d) ==
    IF id = PushId
    THEN IF Len(buf) = 1 /\ buf[1] < CborSmall
         THEN [ok |-> TRUE, val |-> Append(d, buf[1])]
         ELSE [ok |-> FALSE, val |-> d]
    ELSE IF /\ Len(buf) = 3
            /\ buf[1] = CborArray + 2
            /\ buf[2] < CborSmall
            /\ buf[3] < CborSmall
         THEN [ok |-> TRUE, val |-> d \o <<buf[2], buf[3]>>]
         ELSE [ok |-> FALSE, val |-> d]

\* Replay with read in place of read_exact: a payload that the file cuts short
\* is handed on as it is.
RECURSIVE ReplayShortRead(_, _, _, _)
ReplayShortRead(j, pos, reg, d) ==
    LET id == ReadU32(j, pos)
        len == ReadU32(j, pos + U32Len)
        from == pos + 2 * U32Len
        to == IF from + len - 1 > Len(j) THEN Len(j) ELSE from + len - 1
    IN  IF id = Eof THEN [res |-> "ok", val |-> d, id |-> 0]
        ELSE IF len = Eof THEN [res |-> "ok", val |-> d, id |-> 0]
        ELSE IF id \notin reg THEN [res |-> "Unregistered", val |-> d, id |-> id]
        ELSE LET r == Process(id, SubSeq(j, from, to), d)
             IN  IF r.ok THEN ReplayShortRead(j, from + len, reg, r.val)
                 ELSE [res |-> "Cbor", val |-> d, id |-> 0]

\* Replay that passes over a record of an unregistered type id.
RECURSIVE ReplaySkipUnregistered(_, _, _, _)
ReplaySkipUnregistered(j, pos, reg, d) ==
    LET id == ReadU32(j, pos)
        len == ReadU32(j, pos + U32Len)
        from == pos + 2 * U32Len
    IN  IF id = Eof THEN [res |-> "ok", val |-> d, id |-> 0]
        ELSE IF len = Eof THEN [res |-> "ok", val |-> d, id |-> 0]
        ELSE IF from + len - 1 > Len(j) THEN [res |-> "ok", val |-> d, id |-> 0]
        ELSE IF id \notin reg THEN ReplaySkipUnregistered(j, from + len, reg, d)
        ELSE LET r == Process(id, SubSeq(j, from, from + len - 1), d)
             IN  IF r.ok THEN ReplaySkipUnregistered(j, from + len, reg, r.val)
                 ELSE [res |-> "Cbor", val |-> d, id |-> 0]

\* The replay loop of load, from position pos of the journal's bytes.
RECURSIVE Replay(_, _, _, _)
Replay(j, pos, reg, d) ==
    LET id == ReadU32(j, pos)
        len == ReadU32(j, pos + U32Len)
        from == pos + 2 * U32Len
    IN  IF id = Eof THEN [res |-> "ok", val |-> d, id |-> 0]
        ELSE IF len = Eof THEN [res |-> "ok", val |-> d, id |-> 0]
        ELSE IF from + len - 1 > Len(j) THEN [res |-> "ok", val |-> d, id |-> 0]
        ELSE IF id \notin reg THEN [res |-> "Unregistered", val |-> d, id |-> id]
        ELSE LET r == Process(id, SubSeq(j, from, from + len - 1), d)
             IN  IF r.ok THEN Replay(j, from + len, reg, r.val)
                 ELSE [res |-> "Cbor", val |-> d, id |-> 0]

\* The last part of load: deserialize the state file, replay the journal.
ReadAndReplay(st, jEx, j, reg) ==
    LET s == DeData(st)
    IN  IF ~s.ok THEN [res |-> "Cbor", val |-> Default, id |-> 0]
        ELSE IF jEx THEN Replay(j, 1, reg, s.val)
        ELSE [res |-> "ok", val |-> s.val, id |-> 0]

\* What load returns for a directory, as one function of its files.
LoadResult(stEx, st, tmpEx, tmp, jEx, j, reg) ==
    IF ~stEx
    THEN IF tmpEx THEN ReadAndReplay(tmp, FALSE, << >>, reg)
         ELSE [res |-> "ok", val |-> Default, id |-> 0]
    ELSE ReadAndReplay(st, jEx, j, reg)

\* ------------------------------------------------------------------ state

VARIABLES
    stateEx, stateF,      \* the file `state`: whether it exists, its bytes
    tmpEx, tmpF,          \* the file `state~`
    journalEx, journalF,  \* the file `journal`
    pc,                   \* where the process is ("closed": no store instance)
    ret,                  \* the caller compact returns to
    registry,             \* Builder::mutation_types, the ids registered, while load runs
    maxLen, useBuf,       \* Options
    data,                 \* Survive::data
    jbuf,                 \* the bytes the journal's BufWriter still holds
    tbuf,                 \* the bytes the BufWriter of state~ still holds
    jlen,                 \* Survive::journal_file_length
    cur,                  \* the mutation of the mutate call in progress
    err, errId,           \* the Error the last open returned ("none": no error)
    base,                 \* history: the data of this store instance when it was built
    hist,                 \* history: the mutations applied to data since, in order
    jrecs,                \* history: the mutations whose records were written to the
                          \* journal since it was last emptied, in order
    last,                 \* history: the last call that returned, or how the process ended
    crossed,              \* history: the mutate call in progress took the bytes written
                          \* since the last compaction over max_journal_file_length
    atOpen,               \* history: the directory as the load in progress found it
    fresh,                \* history: this store instance was opened on an empty directory
    pending,              \* history: the mutation, if any, that was passed to mutate and
                          \* not applied to data before the process ended or went on
    nMut,                 \* history: the number of calls of mutate
    forced,               \* history: the journal write of the mutate call in progress,
                          \* or of the last one, failed
    failed,               \* history: a call on this store instance returned an error
    onCompacted           \* history: the store instance was opened on a compacted
                          \* directory: a state file that deserializes, an empty
                          \* journal, no state~

disk == <<stateEx, stateF, tmpEx, tmpF, journalEx, journalF>>
mem == <<pc, ret, registry, maxLen, useBuf, data, jbuf, tbuf, jlen, cur, err, errId>>
ghost == <<base, hist, jrecs, last, crossed, atOpen, fresh, pending, nMut, forced, failed,
           onCompacted>>
vars == <<disk, mem, ghost>>

NoDir == [stEx |-> FALSE, st |-> << >>, tmpEx |-> FALSE, tmp |-> << >>,
          jEx |-> FALSE, j |-> << >>, seen |-> FALSE]

Dir == [stEx |-> stateEx, st |-> stateF, tmpEx |-> tmpEx, tmp |-> tmpF,
        jEx |-> journalEx, j |-> journalF, seen |-> TRUE]

\* An empty directory and no store instance.
Init ==
    /\ stateEx = FALSE /\ stateF = << >>
    /\ tmpEx = FALSE /\ tmpF = << >>
    /\ journalEx = FALSE /\ journalF = << >>
    /\ pc = "closed" /\ ret = "none"
    /\ registry = AllIds /\ maxLen = NoMax /\ useBuf = TRUE
    /\ data = Default /\ jbuf = << >> /\ tbuf = << >> /\ jlen = 0
    /\ cur = NoMutation /\ err = "none" /\ errId = 0
    /\ base = Default /\ hist = << >> /\ jrecs = << >>
    /\ last = "none" /\ crossed = FALSE /\ atOpen = NoDir /\ fresh = FALSE
    /\ pending = << >>
    /\ nMut = 0
    /\ forced = FALSE /\ failed = FALSE
    /\ onCompacted = FALSE

\* ------------------------------------------------------------------- open

\* Builder::open -> Survive::open: the call, with the registry of the builder.
OpenCall ==
    /\ pc = "closed"
    /\ \E reg \in Registries : registry' = reg
    /\ pc' = "load_a"
    /\ err' = "none" /\ errId' = 0
    /\ atOpen' = Dir
    /\ UNCHANGED <<disk, ret, maxLen, useBuf, data, jbuf, tbuf, jlen, cur>>
    /\ UNCHANGED <<base, hist, jrecs, last, crossed, forced, failed, fresh, onCompacted, pending, nMut>>

\* load that leaves the journal file where no state file exists.
LoadKeepJournal ==
    /\ pc = "load_a"
    /\ pc' = IF ~stateEx THEN "load_b" ELSE "load_c"
    /\ UNCHANGED disk
    /\ UNCHANGED <<ret, registry, maxLen, useBuf, data, jbuf, tbuf, jlen, cur, err, errId>>
    /\ UNCHANGED ghost

\* load: no state file, so a journal file is removed.
LoadRemoveJournal ==
    /\ pc = "load_a"
    /\ IF ~stateEx
       THEN /\ pc' = "load_b"
            /\ IF journalEx
               THEN /\ journalEx' = FALSE /\ journalF' = << >> /\ jrecs' = << >>
               ELSE UNCHANGED <<journalEx, journalF, jrecs>>
       ELSE /\ pc' = "load_c"
            /\ UNCHANGED <<journalEx, journalF, jrecs>>
    /\ UNCHANGED <<stateEx, stateF, tmpEx, tmpF>>
    /\ UNCHANGED <<ret, registry, maxLen, useBuf, data, jbuf, tbuf, jlen, cur, err, errId>>
    /\ UNCHANGED <<base, hist, last, crossed, forced, failed, atOpen, fresh, onCompacted, pending, nMut>>

\* load: no state file, so state~ is renamed onto it, or there is nothing to load.
LoadPromote ==
    /\ pc = "load_b"
    /\ IF tmpEx
       THEN /\ stateEx' = TRUE /\ stateF' = tmpF
            /\ tmpEx' = FALSE /\ tmpF' = << >>
            /\ pc' = "load_c"
            /\ UNCHANGED data
       ELSE /\ data' = Default
            /\ pc' = "open_j"
            /\ UNCHANGED <<stateEx, stateF, tmpEx, tmpF>>
    /\ UNCHANGED <<journalEx, journalF>>
    /\ UNCHANGED <<ret, registry, maxLen, useBuf, jbuf, tbuf, jlen, cur, err, errId>>
    /\ UNCHANGED ghost

\* load: a state~ beside the state file is removed.
LoadRemoveTransitional ==
    /\ pc = "load_c"
    /\ IF tmpEx
       THEN tmpEx' = FALSE /\ tmpF' = << >>
       ELSE UNCHANGED <<tmpEx, tmpF>>
    /\ pc' = "load_d"
    /\ UNCHANGED <<stateEx, stateF, journalEx, journalF>>
    /\ UNCHANGED <<ret, registry, maxLen, useBuf, data, jbuf, tbuf, jlen, cur, err, errId>>
    /\ UNCHANGED ghost

\* load that empties the journal it could not replay.
LoadReadDiscard ==
    /\ pc = "load_d"
    /\ LET r == ReadAndReplay(stateF, journalEx, journalF, registry)
       IN  IF r.res = "ok"
           THEN /\ data' = r.val
                /\ pc' = "open_j"
                /\ UNCHANGED <<err, errId, journalF>>
           ELSE /\ err' = r.res /\ errId' = r.id
                /\ pc' = "closed"
                /\ journalF' = << >>
                /\ UNCHANGED data
    /\ UNCHANGED <<stateEx, stateF, tmpEx, tmpF, journalEx>>
    /\ UNCHANGED <<ret, registry, maxLen, useBuf, jbuf, tbuf, jlen, cur>>
    /\ UNCHANGED ghost

\* load: the state file is deserialized and the journal replayed; open returns
\* the error of load, if any.
LoadRead ==
    /\ pc = "load_d"
    /\ LET r == ReadAndReplay(stateF, journalEx, journalF, registry)
       IN  IF r.res = "ok"
           THEN /\ data' = r.val
                /\ pc' = "open_j"
                /\ UNCHANGED <<err, errId>>
           ELSE /\ err' = r.res /\ errId' = r.id
                /\ pc' = "closed"
                /\ UNCHANGED data
    /\ UNCHANGED disk
    /\ UNCHANGED <<ret, registry, maxLen, useBuf, jbuf, tbuf, jlen, cur>>
    /\ UNCHANGED ghost

\* open: the journal is opened to append (and created), the store instance is
\* built with the options of the builder, and compact is called.  The store
\* instance does not keep the registry, which the model forgets here.
OpenJournal ==
    /\ pc = "open_j"
    /\ journalEx' = TRUE
    /\ \E mx \in MaxSettings : maxLen' = mx
    /\ \E ub \in BOOLEAN : useBuf' = ub
    /\ jbuf' = << >> /\ jlen' = 0
    /\ pc' = "c_create" /\ ret' = "open"
    /\ base' = data /\ hist' = << >>
    /\ fresh' = (~atOpen.stEx /\ ~atOpen.tmpEx /\ ~atOpen.jEx)
    /\ onCompacted' = (/\ atOpen.stEx /\ DeData(atOpen.st).ok /\ ~atOpen.tmpEx
                       /\ atOpen.jEx /\ atOpen.j = << >>)
    /\ pending' = << >>
    /\ registry' = AllIds
    /\ UNCHANGED <<stateEx, stateF, tmpEx, tmpF, journalF>>
    /\ atOpen' = NoDir
    /\ UNCHANGED <<data, tbuf, cur, err, errId>>
    /\ forced' = FALSE /\ failed' = FALSE
    /\ UNCHANGED <<jrecs, last, crossed, nMut>>

\* ---------------------------------------------------------------- compact

\* compact: File::create(&transitional_state_path)
CompactCreate ==
    /\ pc = "c_create"
    /\ tmpEx' = TRUE /\ tmpF' = << >>
    /\ pc' = "c_ser"
    /\ UNCHANGED <<stateEx, stateF, journalEx, journalF>>
    /\ UNCHANGED <<ret, registry, maxLen, useBuf, data, jbuf, tbuf, jlen, cur, err, errId>>
    /\ UNCHANGED ghost

\* compact: serde_cbor::to_writer into the BufWriter of state~.  The first k
\* bytes are handed to the file as the buffer fills up; the rest stays in the
\* buffer, which nothing flushes before the writer is dropped.
CompactSerialize ==
    /\ pc = "c_ser"
    /\ LET bytes == SerData(data)
       IN  \E k \in 0..Len(bytes) :
               /\ tmpF' = SubSeq(bytes, 1, k)
               /\ tbuf' = SubSeq(bytes, k + 1, Len(bytes))
    /\ pc' = "c_rm"
    /\ UNCHANGED <<stateEx, stateF, tmpEx, journalEx, journalF>>
    /\ UNCHANGED <<ret, registry, maxLen, useBuf, data, jbuf, jlen, cur, err, errId>>
    /\ UNCHANGED ghost

\* compact that leaves the old state file in place.
CompactKeepState ==
    /\ pc = "c_rm"
    /\ pc' = "c_flush"
    /\ UNCHANGED disk
    /\ UNCHANGED <<ret, registry, maxLen, useBuf, data, jbuf, tbuf, jlen, cur, err, errId>>
    /\ UNCHANGED ghost

\* compact: the state file, if there is one, is removed.
CompactRemoveState ==
    /\ pc = "c_rm"
    /\ IF stateEx
       THEN stateEx' = FALSE /\ stateF' = << >>
       ELSE UNCHANGED <<stateEx, stateF>>
    /\ pc' = "c_flush"
    /\ UNCHANGED <<tmpEx, tmpF, journalEx, journalF>>
    /\ UNCHANGED <<ret, registry, maxLen, useBuf, data, jbuf, tbuf, jlen, cur, err, errId>>
    /\ UNCHANGED ghost

\* compact: self.journal.flush()
CompactFlushJournal ==
    /\ pc = "c_flush"
    /\ journalF' = journalF \o jbuf
    /\ jbuf' = << >>
    /\ pc' = "c_setlen"
    /\ UNCHANGED <<stateEx, stateF, tmpEx, tmpF, journalEx>>
    /\ UNCHANGED <<ret, registry, maxLen, useBuf, data, tbuf, jlen, cur, err, errId>>
    /\ UNCHANGED ghost

\* compact that resets the tracked length and leaves the journal file as it is.
CompactKeepJournal ==
    /\ pc = "c_setlen"
    /\ jlen' = 0
    /\ pc' = "c_rename"
    /\ UNCHANGED disk
    /\ UNCHANGED <<ret, registry, maxLen, useBuf, data, jbuf, tbuf, cur, err, errId>>
    /\ UNCHANGED ghost

\* compact: set_len(0) on the journal file, and the tracked length is reset.
CompactTruncate ==
    /\ pc = "c_setlen"
    /\ journalF' = << >>
    /\ jlen' = 0
    /\ jrecs' = << >>
    /\ pc' = "c_rename"
    /\ UNCHANGED <<stateEx, stateF, tmpEx, tmpF, journalEx>>
    /\ UNCHANGED <<ret, registry, maxLen, useBuf, data, jbuf, tbuf, cur, err, errId>>
    /\ UNCHANGED <<base, hist, last, crossed, forced, failed, atOpen, fresh, onCompacted, pending, nMut>>

\* compact that copies state~ to the state file and leaves state~ behind.
CompactCopy ==
    /\ pc = "c_rename"
    /\ stateEx' = TRUE /\ stateF' = tmpF
    /\ pc' = "c_drop"
    /\ UNCHANGED <<tmpEx, tmpF, journalEx, journalF>>
    /\ UNCHANGED <<ret, registry, maxLen, useBuf, data, jbuf, tbuf, jlen, cur, err, errId>>
    /\ UNCHANGED ghost

\* compact: fs::rename of state~ onto the state file.
CompactRename ==
    /\ pc = "c_rename"
    /\ stateEx' = TRUE /\ stateF' = tmpF
    /\ tmpEx' = FALSE /\ tmpF' = << >>
    /\ pc' = "c_drop"
    /\ UNCHANGED <<journalEx, journalF>>
    /\ UNCHANGED <<ret, registry, maxLen, useBuf, data, jbuf, tbuf, jlen, cur, err, errId>>
    /\ UNCHANGED ghost

\* Where compact returns to, and what is then the last call that returned.
AfterCompact(r) == IF r = "mutate" THEN "m_apply" ELSE "idle"
LastAfterCompact(r) == IF r = "mutate" THEN "mcompact" ELSE r

\* compact returns Ok: the BufWriter of state~ goes out of scope and its drop
\* writes what it still holds to its file, which by now is the state file.
CompactReturn ==
    /\ pc = "c_drop"
    /\ stateF' = stateF \o tbuf
    /\ tbuf' = << >>
    /\ pc' = AfterCompact(ret)
    /\ last' = LastAfterCompact(ret)
    /\ ret' = "none"
    /\ UNCHANGED <<stateEx, tmpEx, tmpF, journalEx, journalF>>
    /\ UNCHANGED <<registry, maxLen, useBuf, data, jbuf, jlen, cur, err, errId>>
    /\ UNCHANGED <<base, hist, jrecs, crossed, forced, failed, atOpen, fresh, onCompacted, pending, nMut>>

\* The public compact, called on an idle store.
CompactCall ==
    /\ pc = "idle"
    /\ pc' = "c_create" /\ ret' = "compact"
    /\ UNCHANGED disk
    /\ UNCHANGED <<registry, maxLen, useBuf, data, jbuf, tbuf, jlen, cur, err, errId>>
    /\ UNCHANGED ghost

\* ----------------------------------------------------------------- mutate

\* The journal's BufWriter hands some of its bytes to the file: its buffer
\* filled up during write_buf, or a flush is under way.
JournalWriteThrough ==
    /\ pc \in {"m_flush", "m_check", "c_flush"}
    /\ jbuf # << >>
    /\ \E k \in 1..Len(jbuf) :
           /\ journalF' = journalF \o SubSeq(jbuf, 1, k)
           /\ jbuf' = SubSeq(jbuf, k + 1, Len(jbuf))
    /\ UNCHANGED <<stateEx, stateF, tmpEx, tmpF, journalEx>>
    /\ UNCHANGED <<pc, ret, registry, maxLen, useBuf, data, tbuf, jlen, cur, err, errId>>
    /\ UNCHANGED ghost

\* mutate: the mutation is serialized and write_buf writes its record to the
\* journal's BufWriter.
MutateWrite ==
    /\ pc = "idle"
    /\ nMut < MaxMutations
    /\ \E m \in Mutations :
         LET rec == WriteBuf(m.id, SerMutation(m))
             before == Len(journalF) + Len(jbuf)
         IN  /\ cur' = m
             /\ pending' = <<m>>
             /\ jbuf' = jbuf \o rec
             /\ jrecs' = Append(jrecs, m)
             /\ crossed' = (maxLen # NoMax /\ before <= maxLen
                            /\ before + Len(rec) > maxLen)
    /\ pc' = IF useBuf THEN "m_check" ELSE "m_flush"
    /\ nMut' = nMut + 1
    /\ forced' = FALSE
    /\ UNCHANGED disk
    /\ UNCHANGED <<ret, registry, maxLen, useBuf, data, tbuf, jlen, err, errId>>
    /\ UNCHANGED <<base, hist, last, atOpen, fresh, onCompacted, failed>>

\* mutate, use_journal_buffer = false: self.journal.flush()
MutateFlush ==
    /\ pc = "m_flush"
    /\ journalF' = journalF \o jbuf
    /\ jbuf' = << >>
    /\ pc' = "m_check"
    /\ UNCHANGED <<stateEx, stateF, tmpEx, tmpF, journalEx>>
    /\ UNCHANGED <<ret, registry, maxLen, useBuf, data, tbuf, jlen, cur, err, errId>>
    /\ UNCHANGED ghost

\* The length mutate adds to journal_file_length for a record.
TrackedLen(m) == TrackedHeaderLen + Len(SerMutation(m))

\* Whether mutate compacts, given the tracked length.
OverMax(len, max) == max # NoMax /\ len > max

\* mutate, the write succeeded: the tracked length grows, and compact is
\* called when it exceeds max_journal_file_length.
MutateCheck ==
    /\ pc = "m_check"
    /\ jlen' = jlen + TrackedLen(cur)
    /\ IF OverMax(jlen', maxLen)
       THEN pc' = "c_create" /\ ret' = "mutate"
       ELSE pc' = "m_apply" /\ UNCHANGED ret
    /\ UNCHANGED disk
    /\ UNCHANGED <<registry, maxLen, useBuf, data, jbuf, tbuf, cur, err, errId>>
    /\ UNCHANGED ghost

\* mutate that returns Ok without applying the mutation.
MutateSkip ==
    /\ pc = "m_apply"
    /\ hist' = Append(hist, cur)
    /\ pending' = << >>
    /\ cur' = NoMutation
    /\ pc' = "idle"
    /\ last' = "mutate"
    /\ UNCHANGED disk
    /\ UNCHANGED <<ret, registry, maxLen, useBuf, data, jbuf, tbuf, jlen, err, errId>>
    /\ UNCHANGED <<base, jrecs, crossed, forced, failed, atOpen, fresh, onCompacted, nMut>>

\* mutate: Ok(mutation.mutate(&mut self.data))
MutateApply ==
    /\ pc = "m_apply"
    /\ data' = MutateData(cur, data)
    /\ hist' = Append(hist, cur)
    /\ pending' = << >>
    /\ cur' = NoMutation
    /\ pc' = "idle"
    /\ last' = "mutate"
    /\ UNCHANGED disk
    /\ UNCHANGED <<ret, registry, maxLen, useBuf, jbuf, tbuf, jlen, err, errId>>
    /\ UNCHANGED <<base, jrecs, crossed, forced, failed, atOpen, fresh, onCompacted, nMut>>

\* ------------------------------------------------------- the process ends

\* The store is dropped: the drop of the journal's BufWriter flushes it.
\* (useBuf keeps the option of the store that ended.)
Drop ==
    /\ pc = "idle"
    /\ journalF' = journalF \o jbuf
    /\ jbuf' = << >>
    /\ pc' = "closed"
    /\ data' = Default /\ jlen' = 0
    /\ last' = "drop"
    /\ maxLen' = NoMax
    /\ forced' = FALSE /\ failed' = FALSE /\ onCompacted' = FALSE
    /\ UNCHANGED <<stateEx, stateF, tmpEx, tmpF, journalEx>>
    /\ UNCHANGED <<ret, registry, useBuf, tbuf, cur, err, errId>>
    /\ UNCHANGED <<base, hist, jrecs, crossed, atOpen, fresh, pending, nMut>>

\* The process is interrupted: what is in memory is lost, the files stay as
\* they are.  (useBuf keeps the option of the store that ended.)
Crash ==
    /\ pc # "closed"
    /\ pc' = "closed" /\ ret' = "none"
    /\ data' = Default /\ jbuf' = << >> /\ tbuf' = << >> /\ jlen' = 0
    /\ cur' = NoMutation
    /\ last' = "crash"
    /\ crossed' = FALSE
    /\ forced' = FALSE /\ failed' = FALSE /\ onCompacted' = FALSE
    /\ atOpen' = NoDir
    /\ maxLen' = NoMax /\ registry' = AllIds
    /\ UNCHANGED disk
    /\ UNCHANGED <<useBuf, err, errId>>
    /\ UNCHANGED <<base, hist, jrecs, fresh, pending, nMut>>

\* The journal file of a closed directory is cut at a byte offset (once
\* between two opens: a cut of a cut file is a cut).
TruncateJournal ==
    /\ pc = "closed"
    /\ last # "cut"
    /\ journalEx
    /\ \E k \in 0..(Len(journalF) - 1) : journalF' = SubSeq(journalF, 1, k)
    /\ last' = "cut"
    /\ UNCHANGED <<stateEx, stateF, tmpEx, tmpF, journalEx>>
    /\ UNCHANGED mem
    /\ UNCHANGED <<base, hist, jrecs, crossed, forced, failed, atOpen, fresh, onCompacted, pending, nMut>>

\* The write of the drop of state~'s BufWriter fails: Drop ignores the error,
\* and compact returns Ok all the same.
CompactReturnWriteFails ==
    /\ pc = "c_drop"
    /\ tbuf # << >>
    /\ tbuf' = << >>
    /\ pc' = AfterCompact(ret)
    /\ last' = LastAfterCompact(ret)
    /\ ret' = "none"
    /\ UNCHANGED disk
    /\ UNCHANGED <<registry, maxLen, useBuf, data, jbuf, jlen, cur, err, errId>>
    /\ UNCHANGED <<base, hist, jrecs, crossed, forced, failed, atOpen, fresh, onCompacted, pending, nMut>>

\* mutate: serde_cbor::to_vec(&mutation) fails and mutate returns the error
\* before it has written anything.
MutateSerializeFails ==
    /\ pc = "idle"
    /\ nMut < MaxMutations
    /\ last' = "merr"
    /\ pending' = << >>
    /\ crossed' = FALSE /\ forced' = FALSE /\ failed' = TRUE
    /\ nMut' = nMut + 1
    /\ UNCHANGED disk
    /\ UNCHANGED mem
    /\ UNCHANGED <<base, hist, jrecs, atOpen, fresh, onCompacted>>

\* mutate: write_buf, or the flush after it, fails (write_result.is_err()) and
\* compact is called.  What fails is a write of the BufWriter to the file, of
\* what it holds: the bytes it held before and the bytes of the record it has
\* taken (e bytes: the writes of write_buf before the failing one, or the
\* whole record when it is the flush that failed).  The first k of them have
\* reached the file; the BufWriter keeps the others.
MutateWriteFails ==
    /\ pc = "idle"
    /\ nMut < MaxMutations
    /\ \E m \in Mutations :
         LET rec == WriteBuf(m.id, SerMutation(m))
             all == jbuf \o rec
             taken == {0, U32Len, 2 * U32Len} \cup (IF useBuf THEN {} ELSE {Len(rec)})
         IN  /\ cur' = m
             /\ pending' = <<m>>
             /\ jrecs' = Append(jrecs, m)
             /\ \E e \in taken : \E k \in 0..(Len(jbuf) + e - 1) :
                    /\ journalF' = journalF \o SubSeq(all, 1, k)
                    /\ jbuf' = SubSeq(all, k + 1, Len(jbuf) + e)
    /\ pc' = "c_create" /\ ret' = "mutate"
    /\ crossed' = FALSE /\ forced' = TRUE
    /\ nMut' = nMut + 1
    /\ UNCHANGED <<stateEx, stateF, tmpEx, tmpF, journalEx>>
    /\ UNCHANGED <<registry, maxLen, useBuf, data, tbuf, jlen, err, errId>>
    /\ UNCHANGED <<base, hist, last, atOpen, fresh, onCompacted, failed>>

\* compact: one of its file operations fails and compact returns the error
\* (File::create, to_writer, remove_file, flush, set_len, rename).  The
\* BufWriter of state~, if it was built, is dropped and writes what it holds.
\* The caller returns the error in its turn: open drops the store instance it
\* had built, mutate returns without applying the mutation.
CompactFails ==
    /\ pc \in {"c_create", "c_ser", "c_rm", "c_flush", "c_setlen", "c_rename"}
    /\ pc = "c_rm" => stateEx
    /\ pc = "c_flush" => jbuf # << >>
    /\ IF pc = "c_ser"
       THEN \E k \in 0..(Len(SerData(data)) - 1) : tmpF' = SubSeq(SerData(data), 1, k)
       ELSE tmpF' = tmpF \o tbuf
    /\ tbuf' = << >>
    /\ IF pc = "c_flush"
       THEN \E k \in 0..(Len(jbuf) - 1) :
                /\ journalF' = journalF \o SubSeq(jbuf, 1, k)
                /\ jbuf' = SubSeq(jbuf, k + 1, Len(jbuf))
       ELSE UNCHANGED <<journalF, jbuf>>
    /\ IF ret = "open"
       THEN /\ pc' = "closed" /\ err' = "Io" /\ last' = "operr"
            /\ data' = Default /\ maxLen' = NoMax
            /\ failed' = FALSE /\ onCompacted' = FALSE
       ELSE /\ pc' = "idle"
            /\ last' = IF ret = "mutate" THEN "merr" ELSE "cerr"
            /\ failed' = TRUE
            /\ UNCHANGED <<err, data, maxLen, onCompacted>>
    /\ ret' = "none" /\ cur' = NoMutation
    /\ UNCHANGED <<stateEx, stateF, tmpEx, journalEx>>
    /\ UNCHANGED <<registry, useBuf, jlen, errId>>
    /\ UNCHANGED <<base, hist, jrecs, crossed, atOpen, fresh, pending, nMut, forced>>

\* ---------------------------------------------------------- specifications

Next ==
    \/ OpenCall
    \/ LoadRemoveJournal
    \/ LoadPromote
    \/ LoadRemoveTransitional
    \/ LoadRead
    \/ OpenJournal
    \/ CompactCreate
    \/ CompactSerialize
    \/ CompactRemoveState
    \/ CompactFlushJournal
    \/ CompactTruncate
    \/ CompactRename
    \/ CompactReturn
    \/ CompactCall
    \/ JournalWriteThrough
    \/ MutateWrite
    \/ MutateFlush
    \/ MutateCheck
    \/ MutateApply
    \/ Drop
    \/ Crash

\* Opens, mutations, compactions, drops and interruptions; every file operation
\* succeeds.
Spec == Init /\ [][Next]_vars

\* Spec, and between two opens the journal file may be cut.
SpecTorn == Init /\ [][Next \/ TruncateJournal]_vars

\* Spec, and the write that the drop of state~'s writer makes may fail.
SpecIO == Init /\ [][Next \/ CompactReturnWriteFails]_vars

\* Spec, and the file operations of mutate and of compact may fail with an
\* error that the code sees.
SpecFail ==
    Init /\ [][Next \/ MutateSerializeFails \/ MutateWriteFails \/ CompactFails]_vars

\* ------------------------------------------------- what the claims speak of

\* The data after the mutations ms are applied to d, in order.
RECURSIVE ApplyAll(_, _)
ApplyAll(d, ms) ==
    IF ms = << >> THEN d ELSE ApplyAll(MutateData(Head(ms), d), Tail(ms))

\* The bytes of a journal record: type id, length, payload.
RecordLen(m) == 2 * U32Len + Len(SerMutation(m))

\* The records of ms, one after the other.
RECURSIVE Encode(_)
Encode(ms) ==
    IF ms = << >> THEN << >>
    ELSE WriteBuf(Head(ms).id, SerMutation(Head(ms))) \o Encode(Tail(ms))

\* The mutations of ms whose records lie wholly in the first n bytes.
RECURSIVE WholeBefore(_, _)
WholeBefore(ms, n) ==
    IF ms = << >> \/ RecordLen(Head(ms)) > n THEN << >>
    ELSE <<Head(ms)>> \o WholeBefore(Tail(ms), n - RecordLen(Head(ms)))

IdsOf(ms) == {ms[i].id : i \in 1..Len(ms)}

\* The journal file is always a prefix of the records written to it, and so
\* is the journal an open found beside a state file, until load has returned.
JournalIsRecords ==
    /\ IsPrefix(journalF, Encode(jrecs))
    /\ pc \in {"idle", "m_flush", "m_check", "m_apply"}
          => journalF \o jbuf = Encode(jrecs)
    /\ (atOpen.seen /\ atOpen.stEx
        /\ pc \in {"closed", "load_a", "load_c", "load_d", "open_j"})
          => IsPrefix(atOpen.j, Encode(jrecs))

\* load has returned to open (Some or None), or open has returned its error.
LoadReturned == pc = "open_j" \/ (pc = "closed" /\ err # "none")

\* C1, as claimed: a store opened on an empty directory, mutated and dropped
\* cleanly: the next open with the mutation types registered returns the
\* default value with all the mutations applied in order.
RoundTrip ==
    (last = "drop" /\ fresh /\ IdsOf(hist) \subseteq registry /\ LoadReturned)
        => (err = "none" /\ data = ApplyAll(Default, hist))

\* C2, as claimed: the open after an interruption does not fail with a
\* deserialization error.
CrashRecoverable ==
    ~(pc = "closed" /\ last = "crash" /\ err = "Cbor")

\* The mutations applied in memory so far; the mutation of a call of mutate that
\* is in progress, or was when the process was interrupted, is counted with
\* them, which only weakens the claim.
Applied == hist \o pending

\* C3, as claimed: at every point, what recovery reconstructs from the files is
\* the data of the store instance with a prefix of the applied mutations applied.
\* (A recovery that fails reconstructs nothing, and is left to C2.)
PrefixConsistent ==
    LET r == LoadResult(stateEx, stateF, tmpEx, tmpF, journalEx, journalF, AllIds)
    IN  r.res = "ok" =>
            \E k \in 0..Len(Applied) : r.val = ApplyAll(base, SubSeq(Applied, 1, k))

\* C4, as claimed: without the journal buffer, every mutation whose mutate call
\* returned Ok is in the data the next open loads, however the process ended.
UnbufferedDurable ==
    (~useBuf /\ last \in {"crash", "drop"} /\ IdsOf(hist) \subseteq registry
     /\ pc = "open_j")
        => IsPrefix(ApplyAll(base, hist), data)

\* The directory the open in progress found held a state file, and its journal
\* was a prefix of the records written to it.
FoundState ==
    atOpen.seen /\ atOpen.stEx /\ IsPrefix(atOpen.j, Encode(jrecs))

\* ... and that state file deserializes.
FoundValidState == FoundState /\ DeData(atOpen.st).ok

\* The mutations whose whole records the journal held when open was called.
WholeAtOpen == WholeBefore(jrecs, Len(atOpen.j))

\* The journal open found ended inside a record: it was cut, or torn.
TornAtOpen == Len(Encode(WholeAtOpen)) < Len(atOpen.j)

\* C5: open of a directory with a valid state file and a journal cut at any
\* byte offset returns no error, and load applies, in file order, exactly the
\* records that lie wholly before the cut (the mutation types being registered).
TornJournalTolerated ==
    (FoundValidState /\ IdsOf(WholeAtOpen) \subseteq registry /\ LoadReturned)
        => /\ err = "none"
           /\ data = ApplyAll(DeData(atOpen.st).val, WholeAtOpen)

\* C5's case: load has returned for a journal that held a whole record and then
\* a cut one.
TornJournalLoaded ==
    /\ pc = "open_j" /\ last = "cut" /\ FoundValidState /\ TornAtOpen
    /\ WholeAtOpen # << >>
    /\ Len(WholeAtOpen) < Len(jrecs)
    /\ data = ApplyAll(DeData(atOpen.st).val, WholeAtOpen)

\* The directory the open in progress found held no state file and a fully
\* written state~.
FoundOnlyTransitional ==
    atOpen.seen /\ ~atOpen.stEx /\ atOpen.tmpEx /\ DeData(atOpen.tmp).ok

\* C6: open of a directory without a state file and with a fully written
\* state~ renames state~ onto state and loads exactly the data of state~; a
\* journal in that directory is removed and not replayed.
TransitionalPromoted ==
    (FoundOnlyTransitional /\ LoadReturned)
        => /\ err = "none"
           /\ data = DeData(atOpen.tmp).val
           /\ stateEx /\ stateF = atOpen.tmp
           /\ ~tmpEx /\ ~journalEx

\* C6's case: load has returned after promoting state~, beside a journal that
\* held a whole record.
PromotedBesideJournal ==
    /\ pc = "open_j" /\ FoundOnlyTransitional
    /\ atOpen.jEx /\ Replay(atOpen.j, 1, AllIds, << >>).val # << >>
    /\ data = DeData(atOpen.tmp).val /\ data # << >>

\* The ids of the whole records open found that are not registered, in order.
UnregisteredAtOpen ==
    SelectSeq([i \in 1..Len(WholeAtOpen) |-> WholeAtOpen[i].id],
              LAMBDA id : id \notin registry)

\* C7: open of a directory with a state file and a journal holding a whole
\* record of an unregistered type id returns UnregisteredMutation with that id
\* (the id of the first such record), and no store instance: load never
\* returns data.
UnregisteredRefused ==
    (FoundState /\ UnregisteredAtOpen # << >>)
        => \/ pc \in {"load_a", "load_c", "load_d"}
           \/ /\ pc = "closed" /\ err = "Unregistered"
              /\ errId = Head(UnregisteredAtOpen)

\* C7's case: open has returned UnregisteredMutation for a journal whose first
\* record is registered and whose second is not.
UnregisteredSecondRecord ==
    /\ pc = "closed" /\ err = "Unregistered" /\ FoundState
    /\ Len(WholeAtOpen) = 2
    /\ WholeAtOpen[1].id \in registry
    /\ errId = WholeAtOpen[2].id

\* What a compaction that has just returned Ok is to leave behind.
Compacted ==
    /\ journalEx /\ journalF = << >> /\ jlen = 0
    /\ ~tmpEx
    /\ stateEx /\ DeData(stateF) = [ok |-> TRUE, val |-> data]

\* C8, as claimed: after a call of compact that returned Ok (called by the
\* user, or by mutate), the journal file is empty, the tracked length is 0,
\* there is no state~, and the state file deserializes to the data.
CompactPostcondition ==
    ((pc = "idle" /\ last = "compact") \/ (pc = "m_apply" /\ last = "mcompact"))
        => Compacted

\* C9, as claimed: after an open that returned Ok the state file deserializes
\* to the data, the journal exists and is empty, there is no state~ and the
\* tracked length is 0.
OpenPostcondition ==
    (pc = "idle" /\ last = "open") => Compacted

\* C10, as claimed: after the mutate call that takes the bytes of the records
\* written since the last compaction over max_journal_file_length,
\* journal_file_length() is 0.
ThresholdCompacts ==
    (pc = "idle" /\ last = "mutate" /\ crossed) => jlen = 0

\* C11, as claimed: between calls, journal_file_length() is the number of bytes
\* of the records written to the journal since the last compaction, the sum
\* over those records of 4 + 4 + payload length.
TrackedLengthExact ==
    pc = "idle" => jlen = Len(Encode(jrecs))

\* C12: after every return of open, mutate or compact on a store instance none
\* of whose calls returned an error, the directory holds a state file and a
\* journal file and no state~; a directory without a state file or with a
\* state~ is met only inside a call (an interruption point) or after a call
\* that returned an error.
DirectoryInvariant ==
    (pc = "idle" /\ ~failed) => (stateEx /\ journalEx /\ ~tmpEx)

\* C12's case: mutate has returned Ok after a failed journal write and the
\* compaction it forced, on a store that was mutated before.
DirectoryAfterForcedMutate ==
    /\ pc = "idle" /\ ~failed /\ last = "mutate" /\ forced
    /\ Len(hist) = 2
    /\ stateEx /\ journalEx /\ ~tmpEx

\* The bytes b end with the bytes e.
EndsWith(b, e) ==
    Len(e) <= Len(b) /\ SubSeq(b, Len(b) - Len(e) + 1, Len(b)) = e

\* C13, as claimed: when mutate has returned an error, the data in memory is
\* what it was and no record of the mutation is left in the journal's buffer or
\* file.  (Only the calls whose journal write succeeded are looked at for the
\* record: there the record is whole, the last thing written.)
NoPartialSuccess ==
    (pc = "idle" /\ last = "merr")
        => /\ data = ApplyAll(base, hist)
           /\ (pending # << >> /\ ~forced)
                  => ~EndsWith(journalF \o jbuf, Encode(pending))

\* The directory the open in progress found was compacted: a state file that
\* deserializes, an empty journal and no state~.
FoundCompacted ==
    /\ atOpen.seen /\ atOpen.stEx /\ DeData(atOpen.st).ok
    /\ ~atOpen.tmpEx /\ atOpen.jEx /\ atOpen.j = << >>

\* C14, as claimed: open of a compacted directory loads the value of its
\* state file, and when that open has returned the directory is compacted
\* again, with a state file that deserializes to the value loaded; a drop of
\* the store, if mutate was not called on it, leaves it so.  Opening, dropping
\* and reopening therefore returns the same data every time.
IdempotentRecovery ==
    /\ (pc = "open_j" /\ FoundCompacted)
           => (err = "none" /\ data = DeData(atOpen.st).val)
    /\ (pc = "idle" /\ last = "open" /\ onCompacted)
           => (Compacted /\ data = base)
    /\ (pc = "closed" /\ last = "drop" /\ hist = << >> /\ pending = << >>)
           => /\ stateEx /\ DeData(stateF) = [ok |-> TRUE, val |-> base]
              /\ journalEx /\ journalF = << >> /\ ~tmpEx

\* C15, as claimed: when the journal write of a mutate call failed and the
\* compaction it forced succeeded, then at the return of mutate the state file
\* deserializes to the data, the mutation included, and the journal is empty.
ForcedCompactionFolds ==
    (pc = "idle" /\ last = "mutate" /\ forced) => Compacted

SnapshotWrittenFirst ==
    /\ pc \in {"c_flush", "c_setlen", "c_rename"}
           => (tmpEx /\ DeData(tmpF) = [ok |-> TRUE, val |-> data])
    /\ stateEx => DeData(stateF).ok

\* C18, as claimed: when compact has truncated the journal, the new snapshot
\* is already the state file.
TruncatesAfterPromotion ==
    pc = "c_rename" => (stateEx /\ ~tmpEx)

\* C18, amended: compact truncates the journal and resets the tracked length
\* after it has removed the old state file and before it renames state~ onto
\* the state file: at the truncation there is no state file and state~ is in
\* place, and when the rename has made the new snapshot the state file the
\* journal is empty already.
TruncatesBeforePromotion ==
    /\ pc = "c_rename"
           => /\ ~stateEx /\ tmpEx
              /\ journalF = << >> /\ jbuf = << >> /\ jlen = 0
    /\ pc = "c_drop"
           => /\ stateEx /\ ~tmpEx
              /\ journalF = << >> /\ jbuf = << >> /\ jlen = 0

\* C18's case: a compaction called after a mutation has truncated the journal
\* and has not yet renamed state~.
TruncatedNotYetPromoted ==
    /\ pc = "c_rename" /\ ret = "compact" /\ last = "mutate"
    /\ data # Default
    /\ ~stateEx /\ tmpEx /\ journalF = << >> /\ jlen = 0

\* The sequences made of some of the mutations ms, in their order.
RECURSIVE SubSeqsOf(_)
SubSeqsOf(ms) ==
    IF ms = << >> THEN {<< >>}
    ELSE LET rest == SubSeqsOf(Tail(ms))
         IN  rest \cup {<<Head(ms)>> \o t : t \in rest}

\* What load would return for the directory as it is, every type registered.
Recovered ==
    LoadResult(stateEx, stateF, tmpEx, tmpF, journalEx, journalF, AllIds)

\* C19: at every point, what recovery reconstructs from the files holds the
\* effect of no mutation twice: it is the data the store instance was built
\* with, with some of the mutations passed to mutate since applied, each once
\* and in their order.  The snapshot recovery reads and the journal it replays
\* on top of it never both hold the same mutation.
NoDoubleApplication ==
    Recovered.res = "ok"
        => \E ms \in SubSeqsOf(Applied) : Recovered.val = ApplyAll(base, ms)

\* C19's case: compact is at an interruption point where state~ folds in a
\* mutation whose record is in the journal file, beside the old state file;
\* recovery gives the data with the mutation applied once.
FoldedBesideJournal ==
    /\ pc = "c_rm" /\ stateEx /\ tmpEx
    /\ hist # << >>
    /\ DeData(tmpF) = [ok |-> TRUE, val |-> data]
    /\ DeData(stateF).ok /\ DeData(stateF).val # data
    /\ journalF = Encode(jrecs) /\ jrecs # << >>
    /\ Recovered.res = "ok" /\ Recovered.val = data

\* C20: when open has failed with UnregisteredMutation, the state file and the
\* journal file are as open found them, and load with every type registered
\* returns the data of the state file with the whole records of the journal
\* applied in order.
FailedOpenPreserves ==
    (pc = "closed" /\ err = "Unregistered")
        => /\ atOpen.seen /\ atOpen.stEx /\ atOpen.jEx
           /\ stateEx /\ stateF = atOpen.st
           /\ journalEx /\ journalF = atOpen.j
           /\ Recovered.res = "ok"
           /\ Recovered.val = ApplyAll(DeData(atOpen.st).val, WholeAtOpen)

\* C20's case: open has failed with UnregisteredMutation on a journal of two
\* whole records, and load with every type registered would apply both.
FailedOpenLeftFiles ==
    /\ pc = "closed" /\ err = "Unregistered"
    /\ Len(WholeAtOpen) = 2
    /\ journalF = atOpen.j /\ journalF = Encode(WholeAtOpen)
    /\ stateF = atOpen.st
    /\ Recovered.res = "ok"
    /\ Recovered.val = ApplyAll(DeData(stateF).val, WholeAtOpen)
    /\ Len(Recovered.val) = Len(DeData(stateF).val) + 3

====
